---- MODULE Spec2Model ----
(***************************************************************************)
(* Connection lifecycle of the WhatsApp HTTP facade.                       *)
(*                                                                         *)
(*   Spec          the v4.2.0 server (src/servidor.js, lines 1-429)        *)
(*   SpecSend      the same, with POST /send requests                      *)
(*   SpecReconnect the turns of v4.2.0 that start and end attempts         *)
(*   FairReconnect the same, with timers that fire                         *)
(*   SpecLog       the message log of v4.2.0                               *)
(*   Spec43        the v4.3.0 server (src/unnamed/part_004)                *)
(*   SpecSend43    a v4.3.0 session with POST /send requests               *)
(*   SpecLog43     the message log of v4.3.0 near its capacity             *)
(*   Spec40        the v4.0 server (src/unnamed/part_003)                  *)
(*   Fair40        the same, with timers and continuations that run        *)
(*                                                                         *)
(* The servers run on a single-threaded event loop: every action is one    *)
(* turn of that loop (a handler run up to its next await, or the           *)
(* continuation of an await).  The external WhatsApp library is a black    *)
(* box: a socket that has been made and has not ended may emit qr, open,   *)
(* close, creds.update and messages.upsert events at any time.  A socket   *)
(* that has ended, or whose listeners were removed, reaches no listener    *)
(* any more; continuations already suspended still run.  An update carries *)
(* either a qr or a connection value, as the library emits them.           *)
(*                                                                         *)
(* The servers are analysed one at a time.  The variables that mean        *)
(* the same thing in all (the `sock` global,  the auth folder, the pending *)
(* timers, the runs of connectWhatsApp and their sockets) are shared; the  *)
(* globals that exist in one version only are left untouched by the other. *)
(***************************************************************************)
EXTENDS Integers, Sequences, FiniteSets, Bags, TLC

(* ---------------- bounds ---------------- *)
MaxAttempts == 2      \* connectWhatsApp runs that get past the gate (= sockets made)
MaxTimers   == 2      \* setTimeout(connectWhatsApp, ..) tasks pending at once
MaxQrWait   == 2      \* qr handler invocations suspended at toDataURL at once
MaxLog      == 2      \* records in the message log
MaxBatch    == 1      \* messages in one messages.upsert event

(* ---------------- program constants ---------------- *)
MAX_QR_ATTEMPTS == 5
MAX_RECONNECT_ATTEMPTS == 10

Attempts == 1..MaxAttempts
NoSock   == 0

\* close reasons the library reports (DisconnectReason of the status code)
Codes == {"loggedOut", "badSession", "connectionLost"}

VARIABLES
  \* ---- shared ----
  booted,       \* the app.listen callback has run
  sock,         \* `sock`: NoSock (null) or the id of the handle
  authFolder,   \* AUTH_FOLDER holds credentials (creds.json)
  timers,       \* bag of pending setTimeout(connectWhatsApp, delay) tasks
  pc,           \* per run of connectWhatsApp: "none" | "awaiting" | "made" | "thrown"
  phase,        \* per socket: "none" | "connecting" | "open" | "closed"
  qrWait,       \* per socket: handler invocations suspended at `await toDataURL`
  saving,       \* sockets with a saveCreds write in flight
  logoutOn,     \* NoSock, or the socket whose `await sock.logout()` is pending
  sendOn,       \* NoSock, or the socket whose `await sock.sendMessage()` is pending
  resp,         \* HTTP response written by this turn (NoResp: none)
  \* ---- v4.2.0 only ----
  qrCodeData,   \* 0 (null) or the id of the socket whose qr it encodes
  qrAttempts,
  state,
  superseded,   \* history: runs that were in flight, with no qr continuation
                \* suspended, when a /force-reset was handled with
                \* state.status = 'connecting' (every handler turn of theirs
                \* from then on is for an event emitted after the reset)
  wiped,        \* history: a fatal close wiped the session and no run has
                \* passed the gate since
  qrDropped,    \* history: a qr update has been ignored because the QR budget was
                \* used up
  loggedOut,    \* history: the sockets a completed POST /logout called logout() on
  accepted,     \* history: number of messages the upsert handler has accepted
  stale,        \* history: bag of the pending timers that were scheduled before
                \* the latest /logout or /force-reset handler that ran in one turn
  \* ---- v4.3.0 only ----
  qrCode, qrDataUrl, connectionStatus, isConnected, isAuthenticated, isReady,
  lastError, reconnectAttempts,
  messages,     \* the message log, head first (`messages` of v4.2.0 too)
  readyTimer,   \* runs whose 10 s ready timer is pending
  \* ---- v4.0 only ----
  emitted,      \* number of messages the library has emitted so far (the k-th
                \* one is given seq k)
  downloads     \* messages.upsert handler invocations suspended at
                \* `await downloadAndSaveMedia`: the messages left, head first

shared == <<booted, sock, authFolder, timers, pc, phase, qrWait, saving,
            logoutOn, sendOn, resp>>
vars42 == <<qrCodeData, qrAttempts, state, superseded, wiped, stale, accepted,
            loggedOut, qrDropped>>
vars43 == <<qrCode, qrDataUrl, connectionStatus, isConnected, isAuthenticated,
            isReady, lastError, reconnectAttempts, messages, readyTimer>>
vars40 == <<emitted, downloads>>
vars == <<shared, vars42, vars43, vars40>>

(* ---------------- helpers ---------------- *)
Min(a, b) == IF a < b THEN a ELSE b

\* fs.readdirSync(AUTH_FOLDER).filter(.json).length > 0
checkSession == authFolder

Resp(route, code) == [route |-> route, code |-> code]
NoResp == Resp("", 0)

Timer(d, by) == [delay |-> d, by |-> by]
setTimeout(bag, d, by) == bag (+) SetToBag({Timer(d, by)})
CanSchedule == BagCardinality(timers) < MaxTimers

\* a run is in flight from the gate until its socket's open or close event, its
\* exception, or the end of its socket
InFlight == {a \in Attempts : pc[a] = "awaiting" \/ phase[a] = "connecting"}
Started == {a \in Attempts : pc[a] # "none"}
Live    == {a \in Attempts : phase[a] \in {"connecting", "open"}}
QrWaiting == LET S[n \in 0..MaxAttempts] ==
                   IF n = 0 THEN 0 ELSE S[n-1] + qrWait[n]
             IN S[MaxAttempts]

(* ---------------- initial state ---------------- *)
\* `state` as declared (lastConnection, a timestamp, left out)
state0 ==
  [isConnected |-> FALSE, hasSession |-> FALSE, qrAvailable |-> FALSE,
   status |-> "disconnected", reconnectAttempts |-> 0, isConnecting |-> FALSE,
   messagesCount |-> 0]

Init ==
  /\ booted = FALSE
  /\ sock = NoSock
  /\ authFolder \in BOOLEAN      \* empty, or creds left by an earlier process
  /\ timers = EmptyBag
  /\ pc = [a \in Attempts |-> "none"]
  /\ phase = [a \in Attempts |-> "none"]
  /\ qrWait = [a \in Attempts |-> 0]
  /\ saving = {}
  /\ logoutOn = NoSock
  /\ sendOn = NoSock
  /\ resp = NoResp
  /\ qrCodeData = 0
  /\ qrAttempts = 0
  /\ state = state0
  /\ superseded = {}
  /\ wiped = FALSE
  /\ stale = EmptyBag
  /\ accepted = 0
  /\ loggedOut = {}
  /\ qrDropped = FALSE
  /\ qrCode = 0
  /\ qrDataUrl = 0
  /\ connectionStatus = "disconnected"
  /\ isConnected = FALSE
  /\ isAuthenticated = FALSE
  /\ isReady = FALSE
  /\ lastError = "null"
  /\ reconnectAttempts = 0
  /\ messages = << >>
  /\ emitted = 0
  /\ downloads = {}
  /\ readyTimer = {}

(* ---------------- creds.update listener (both versions) ---------------- *)
\* creds.update: saveCreds starts writing creds.json
EvCreds(s) ==
  /\ s \in Live
  /\ s \notin saving
  /\ saving' = saving \cup {s}
  /\ resp' = NoResp
  /\ UNCHANGED <<booted, sock, authFolder, timers, pc, phase, qrWait, logoutOn, sendOn>>
  /\ UNCHANGED <<vars42, vars43>>
  /\ UNCHANGED vars40

\* ... and the write lands
CredsSaved(s) ==
  /\ s \in saving
  /\ saving' = saving \ {s}
  /\ authFolder' = TRUE
  /\ resp' = NoResp
  /\ UNCHANGED <<booted, sock, timers, pc, phase, qrWait, logoutOn, sendOn>>
  /\ UNCHANGED <<vars42, vars43>>
  /\ UNCHANGED vars40

(***************************************************************************)
(*                         v4.2.0  (src/servidor.js)                       *)
(***************************************************************************)
\* state = { ...state, ...updates }
updateState(st, updates) ==
  [k \in DOMAIN st |-> IF k \in DOMAIN updates THEN updates[k] ELSE st[k]]

\* Math.min(5000 + (state.reconnectAttempts * 2000), 30000)
reconnectDelay(n) == Min(5000 + (n * 2000), 30000)

\* the gate and the synchronous prefix, up to the first await of the try block
connectWhatsApp ==
  IF state.isConnecting
    THEN UNCHANGED <<state, pc, wiped>>
    ELSE LET a == Cardinality(Started) + 1 IN
         /\ a \in Attempts
         /\ state' = updateState(
                       updateState(state, [isConnecting |-> TRUE, status |-> "connecting"]),
                       [hasSession |-> checkSession])
         /\ pc' = [pc EXCEPT ![a] = "awaiting"]
         /\ wiped' = FALSE

\* app.listen callback
AppListen ==
  /\ ~booted
  /\ booted' = TRUE
  /\ connectWhatsApp
  /\ resp' = NoResp
  /\ UNCHANGED <<sock, authFolder, timers, phase, qrWait, saving, logoutOn, sendOn>>
  /\ UNCHANGED <<qrCodeData, qrAttempts, superseded, stale, accepted, loggedOut, qrDropped, vars43>>
  /\ UNCHANGED vars40

\* a pending setTimeout(connectWhatsApp, delay) fires
TimerFires(t) ==
  /\ BagIn(t, timers)
  /\ timers' = timers (-) SetToBag({t})
  /\ stale' = stale (-) SetToBag({t})    \* equal delays fire in scheduling order
  /\ connectWhatsApp
  /\ resp' = NoResp
  /\ UNCHANGED <<booted, sock, authFolder, phase, qrWait, saving, logoutOn, sendOn>>
  /\ UNCHANGED <<qrCodeData, qrAttempts, superseded, accepted, loggedOut, qrDropped, vars43>>
  /\ UNCHANGED vars40

\* the awaits of the try block (useMultiFileAuthState, fetchLatestBaileysVersion)
\* have returned: makeWASocket, `sock` assigned, listeners attached
SocketMade(a) ==
  /\ pc[a] = "awaiting"
  /\ sock' = a
  /\ pc' = [pc EXCEPT ![a] = "made"]
  /\ phase' = [phase EXCEPT ![a] = "connecting"]
  /\ resp' = NoResp
  /\ UNCHANGED <<booted, authFolder, timers, qrWait, saving, logoutOn, sendOn>>
  /\ UNCHANGED <<vars42, vars43>>
  /\ UNCHANGED vars40

\* the library throws during setup: the catch block
SetupThrows(a) ==
  /\ pc[a] = "awaiting"
  /\ CanSchedule
  /\ pc' = [pc EXCEPT ![a] = "thrown"]
  /\ state' = updateState(state, [isConnecting |-> FALSE, status |-> "error"])
  /\ timers' = setTimeout(timers, 5000, "catch")
  /\ resp' = NoResp
  /\ UNCHANGED <<booted, sock, authFolder, phase, qrWait, saving, logoutOn, sendOn>>
  /\ UNCHANGED <<qrCodeData, qrAttempts, superseded, wiped, stale, accepted, loggedOut, qrDropped, vars43>>
  /\ UNCHANGED vars40

\* the guard of the qr branch
qrAccepted == ~state.isConnected /\ qrAttempts < MAX_QR_ATTEMPTS

\* update carrying a qr: the handler up to `await qrcode.toDataURL(qr)`
EvQr(s) ==
  /\ phase[s] = "connecting"
  /\ IF qrAccepted
       THEN /\ QrWaiting < MaxQrWait
            /\ qrWait' = [qrWait EXCEPT ![s] = @ + 1]
            /\ UNCHANGED qrDropped
       ELSE /\ UNCHANGED qrWait       \* the update is ignored
            /\ qrDropped' = (qrDropped \/ (~state.isConnected
                                            /\ qrAttempts >= MAX_QR_ATTEMPTS))
  /\ resp' = NoResp
  /\ UNCHANGED <<booted, sock, authFolder, timers, pc, phase, saving, logoutOn, sendOn>>
  /\ UNCHANGED <<qrCodeData, qrAttempts, state, superseded, wiped, stale, accepted,
                 loggedOut, vars43>>
  /\ UNCHANGED vars40

\* ... and its continuation
QrResume(s) ==
  /\ qrWait[s] > 0
  /\ qrWait' = [qrWait EXCEPT ![s] = @ - 1]
  /\ qrCodeData' = s
  /\ qrAttempts' = qrAttempts + 1
  /\ state' = updateState(state, [qrAvailable |-> TRUE, status |-> "waiting_qr"])
  /\ resp' = NoResp
  /\ UNCHANGED <<booted, sock, authFolder, timers, pc, phase, saving, logoutOn, sendOn>>
  /\ UNCHANGED <<superseded, wiped, stale, accepted, loggedOut, qrDropped, vars43>>
  /\ UNCHANGED vars40

\* closeHandler with badSession left out of the reconnect: wiped by neither
\* branch, no timer
closeHandler_giveUp(code) ==
  LET st1 == updateState(state, [isConnected |-> FALSE, isConnecting |-> FALSE,
                                 qrAvailable |-> FALSE, status |-> "disconnected"])
  IN IF code = "loggedOut"
       THEN /\ authFolder' = FALSE
            /\ qrCodeData' = 0
            /\ qrAttempts' = 0
            /\ state' = updateState(st1, [hasSession |-> FALSE])
            /\ timers' = setTimeout(timers, 2000, "close_fatal")
            /\ wiped' = TRUE
       ELSE IF code # "badSession"
         THEN /\ state' = updateState(st1, [reconnectAttempts |-> st1.reconnectAttempts + 1])
              /\ timers' = setTimeout(timers, reconnectDelay(st1.reconnectAttempts),
                                      "close_transient")
              /\ UNCHANGED <<authFolder, qrCodeData, qrAttempts, wiped>>
         ELSE /\ state' = st1
              /\ UNCHANGED <<authFolder, qrCodeData, qrAttempts, wiped, timers>>

\* the close branch of the handler
closeHandler(code) ==
  LET st1 == updateState(state, [isConnected |-> FALSE, isConnecting |-> FALSE,
                                 qrAvailable |-> FALSE, status |-> "disconnected"])
  IN IF code = "loggedOut" \/ code = "badSession"
       THEN /\ authFolder' = FALSE
            /\ qrCodeData' = 0
            /\ qrAttempts' = 0
            /\ state' = updateState(st1, [hasSession |-> FALSE])
            /\ timers' = setTimeout(timers, 2000, "close_fatal")
            /\ wiped' = TRUE
       ELSE /\ state' = updateState(st1, [reconnectAttempts |-> st1.reconnectAttempts + 1])
            /\ timers' = setTimeout(timers, reconnectDelay(st1.reconnectAttempts),
                                    "close_transient")
            /\ UNCHANGED <<authFolder, qrCodeData, qrAttempts, wiped>>

\* update with connection = 'close' (the socket has ended)
EvClose(s, code) ==
  /\ s \in Live
  /\ CanSchedule
  /\ phase' = [phase EXCEPT ![s] = "closed"]
  /\ closeHandler(code)
  /\ resp' = NoResp
  /\ UNCHANGED <<booted, sock, pc, qrWait, saving, logoutOn, sendOn>>
  /\ UNCHANGED <<superseded, stale, accepted, loggedOut, qrDropped, vars43>>
  /\ UNCHANGED vars40

\* the open branch of the handler
openHandler ==
  /\ qrCodeData' = 0
  /\ qrAttempts' = 0
  /\ state' = updateState(state, [isConnected |-> TRUE, isConnecting |-> FALSE,
                                  qrAvailable |-> FALSE, hasSession |-> TRUE,
                                  status |-> "connected", reconnectAttempts |-> 0])

\* update with connection = 'open'
EvOpen(s) ==
  /\ phase[s] = "connecting"
  /\ phase' = [phase EXCEPT ![s] = "open"]
  /\ openHandler
  /\ resp' = NoResp
  /\ UNCHANGED <<booted, sock, authFolder, timers, pc, qrWait, saving, logoutOn, sendOn>>
  /\ UNCHANGED <<superseded, wiped, stale, accepted, loggedOut, qrDropped, vars43>>
  /\ UNCHANGED vars40

\* POST /logout: everything after the try block
logoutTail ==
  /\ authFolder' = FALSE
  /\ qrCodeData' = 0
  /\ qrAttempts' = 0
  /\ state' = updateState(state, [isConnected |-> FALSE, hasSession |-> FALSE,
                                  qrAvailable |-> FALSE, status |-> "disconnected",
                                  isConnecting |-> FALSE])
  /\ timers' = setTimeout(timers, 1000, "logout")
  /\ resp' = Resp("/logout", 200)

\* POST /logout up to `await sock.logout()`; with sock = null it runs to its end
Logout ==
  /\ booted
  /\ logoutOn = NoSock
  /\ IF sock # NoSock
       THEN /\ logoutOn' = sock
            /\ resp' = NoResp
            /\ UNCHANGED <<sock, authFolder, timers, qrCodeData, qrAttempts, state, stale>>
       ELSE /\ CanSchedule
            /\ logoutTail
            /\ stale' = timers
            /\ UNCHANGED <<sock, logoutOn>>
  /\ UNCHANGED <<booted, pc, phase, qrWait, saving, sendOn>>
  /\ UNCHANGED <<superseded, wiped, accepted, loggedOut, qrDropped, vars43>>
  /\ UNCHANGED vars40

\* sock.logout() settles: resolved (the library has ended the socket) or
\* rejected (the catch swallows it and `sock = null` is skipped)
LogoutResume(ok) ==
  /\ logoutOn # NoSock
  /\ ok => phase[logoutOn] = "closed"
  /\ CanSchedule
  /\ logoutOn' = NoSock
  /\ sock' = IF ok THEN NoSock ELSE sock
  /\ logoutTail
  /\ loggedOut' = loggedOut \cup {logoutOn}
  /\ UNCHANGED <<booted, pc, phase, qrWait, saving, sendOn>>
  /\ UNCHANGED <<superseded, wiped, stale, accepted, qrDropped, vars43>>
  /\ UNCHANGED vars40

\* POST /force-reset
ForceReset ==
  /\ booted
  /\ CanSchedule
  /\ IF sock # NoSock
       THEN phase' = [phase EXCEPT ![sock] = "closed"]  \* removeAllListeners(); end()
                                                        \* (neither is taken to throw)
       ELSE UNCHANGED phase
  /\ sock' = NoSock
  /\ authFolder' = FALSE
  /\ qrCodeData' = 0
  /\ qrAttempts' = 0
  /\ state' = updateState(state, [isConnected |-> FALSE, hasSession |-> FALSE,
                                  qrAvailable |-> FALSE, status |-> "disconnected",
                                  isConnecting |-> FALSE, reconnectAttempts |-> 0])
  /\ timers' = setTimeout(timers, 1000, "force_reset")
  /\ resp' = Resp("/force-reset", 200)
  /\ superseded' = IF state.status = "connecting"
                     THEN superseded \cup {a \in InFlight : qrWait[a] = 0}
                     ELSE superseded
  /\ stale' = timers
  /\ UNCHANGED <<booted, pc, qrWait, saving, logoutOn, sendOn>>
  /\ UNCHANGED <<wiped, accepted, loggedOut, qrDropped, vars43>>
  /\ UNCHANGED vars40

\* the turns of the connection lifecycle
Lifecycle ==
  \/ AppListen
  \/ \E t \in BagToSet(timers) : TimerFires(t)
  \/ \E a \in Attempts : SocketMade(a)
  \/ \E a \in Attempts : SetupThrows(a)
  \/ \E s \in Attempts : EvQr(s)
  \/ \E s \in Attempts : QrResume(s)
  \/ \E s \in Attempts, c \in Codes : EvClose(s, c)
  \/ \E s \in Attempts : EvOpen(s)
  \/ Logout
  \/ \E ok \in BOOLEAN : LogoutResume(ok)
  \/ ForceReset

Next ==
  \/ Lifecycle
  \/ \E s \in Attempts : EvCreds(s)
  \/ \E s \in Attempts : CredsSaved(s)

Spec == Init /\ [][Next]_vars

\* the capacity of the message log
MAX_MESSAGES == 100

\* messages of one upsert event: msg.message set or not, remoteJid
\* status@broadcast or not
Msg42 == [hasMessage : BOOLEAN, broadcast : BOOLEAN]
Batches42 == UNION {[1..n -> Msg42] : n \in 0..MaxBatch}

\* the loop of the messages.upsert handler, with pop() taking the newest record
upsert_shift(acc, batch) ==
  LET step[k \in 0..Len(batch)] ==
        IF k = 0 THEN acc
        ELSE LET a == step[k - 1]
                 msg == batch[k]
             IN IF ~msg.hasMessage \/ msg.broadcast THEN a
                ELSE LET l1 == <<[id |-> a.n + 1]>> \o a.log
                         l2 == IF Len(l1) > MAX_MESSAGES THEN Tail(l1) ELSE l1
                     IN [log |-> l2, n |-> a.n + 1, count |-> Len(l2)]
  IN step[Len(batch)]

\* the loop of the messages.upsert handler over the messages of one event;
\* acc = [log, n, count]: `messages`, the number of messages accepted so far
\* (the k-th accepted message is given id k) and state.messagesCount
upsert(acc, batch) ==
  LET step[k \in 0..Len(batch)] ==
        IF k = 0 THEN acc
        ELSE LET a == step[k - 1]
                 msg == batch[k]
             IN IF ~msg.hasMessage \/ msg.broadcast THEN a       \* continue
                ELSE LET l1 == <<[id |-> a.n + 1]>> \o a.log      \* unshift
                         l2 == IF Len(l1) > MAX_MESSAGES          \* pop
                                 THEN SubSeq(l1, 1, Len(l1) - 1) ELSE l1
                     IN [log |-> l2, n |-> a.n + 1, count |-> Len(l2)]
  IN step[Len(batch)]

\* messages.upsert listener
EvUpsert(s, batch) ==
  /\ phase[s] = "open"
  /\ LET r == upsert([log |-> messages, n |-> accepted,
                      count |-> state.messagesCount], batch)
     IN /\ r.n <= MAX_MESSAGES + MaxLog
        /\ messages' = r.log
        /\ accepted' = r.n
        /\ state' = updateState(state, [messagesCount |-> r.count])
  /\ resp' = NoResp
  /\ UNCHANGED <<booted, sock, authFolder, timers, pc, phase, qrWait, saving,
                 logoutOn, sendOn>>
  /\ UNCHANGED <<qrCodeData, qrAttempts, superseded, wiped, stale, loggedOut,
                 qrDropped>>
  /\ UNCHANGED <<qrCode, qrDataUrl, connectionStatus, isConnected, isAuthenticated,
                 isReady, lastError, reconnectAttempts, readyTimer>>
  /\ UNCHANGED vars40

\* GET /messages: answers { ok, messages, count } with the log as it is
GetMessages ==
  /\ booted
  /\ resp' = Resp("/messages", 200)
  /\ UNCHANGED <<booted, sock, authFolder, timers, pc, phase, qrWait, saving,
                 logoutOn, sendOn>>
  /\ UNCHANGED <<vars42, vars43>>
  /\ UNCHANGED vars40

\* a session that opens and receives messages
Inbox ==
  \/ AppListen
  \/ \E a \in Attempts : SocketMade(a)
  \/ \E s \in Attempts : EvOpen(s)
  \/ \E s \in Attempts, batch \in Batches42 : EvUpsert(s, batch)
  \/ GetMessages

SpecLog == Init /\ [][Inbox]_vars

\* the turns that start, end and restart connection attempts (pairing by QR
\* and credential writes left out: they write neither isConnected,
\* isConnecting, the runs, the sockets' phases nor the timers)
Reconnect ==
  \/ AppListen
  \/ \E t \in BagToSet(timers) : TimerFires(t)
  \/ \E a \in Attempts : SocketMade(a)
  \/ \E a \in Attempts : SetupThrows(a)
  \/ \E s \in Attempts, c \in Codes : EvClose(s, c)
  \/ \E s \in Attempts : EvOpen(s)
  \/ Logout
  \/ \E ok \in BOOLEAN : LogoutResume(ok)
  \/ ForceReset

SpecReconnect == Init /\ [][Reconnect]_vars

\* the runtime runs every setTimeout callback that is due
FairReconnect ==
  SpecReconnect /\ WF_vars(\E t \in BagToSet(timers) : TimerFires(t))

\* update with connection = 'close' and a fatal status code, when fs.rmSync or
\* fs.mkdirSync throws: the handler has run updateState, the exception leaves
\* the async handler (its promise is rejected) and the rest of the branch is
\* skipped; the folder is left as it was or without its files
EvCloseWipeThrows(s, code) ==
  /\ s \in Live
  /\ code \in {"loggedOut", "badSession"}
  /\ phase' = [phase EXCEPT ![s] = "closed"]
  /\ state' = updateState(state, [isConnected |-> FALSE, isConnecting |-> FALSE,
                                  qrAvailable |-> FALSE, status |-> "disconnected"])
  /\ authFolder' \in {authFolder, FALSE}
  /\ resp' = NoResp
  /\ UNCHANGED <<booted, sock, timers, pc, qrWait, saving, logoutOn, sendOn>>
  /\ UNCHANGED <<qrCodeData, qrAttempts, superseded, wiped, stale, accepted,
                 loggedOut, qrDropped, vars43>>
  /\ UNCHANGED vars40

\* the turns that start, end and restart attempts, with a session store whose
\* wipe may fail
ReconnectWipe ==
  \/ Reconnect
  \/ \E s \in Attempts, c \in Codes : EvCloseWipeThrows(s, c)

SpecWipe == Init /\ [][ReconnectWipe]_vars

\* pairing with an empty session store and nobody scanning: the library issues
\* qr updates and closes unscanned sockets with a transient status
Pairing ==
  \/ AppListen
  \/ \E t \in BagToSet(timers) : TimerFires(t)
  \/ \E a \in Attempts : SocketMade(a)
  \/ \E s \in Attempts : EvQr(s)
  \/ \E s \in Attempts : QrResume(s)
  \/ \E s \in Attempts : EvClose(s, "connectionLost")

\* the server starts with an empty session store
InitEmpty == Init /\ ~authFolder

SpecPairing == InitEmpty /\ [][Pairing]_vars

\* JSON bodies of a POST /send: phone or text missing (or falsy); both present
\* with phone a string; both present with phone a number
Requests == {"missing", "string", "number"}

\* formatPhone(phone) calls phone.replace, which only strings have: on a number
\* it throws a TypeError
formatPhoneThrows(req) == req = "number"

\* POST /send up to `await sock.sendMessage(jid, { text })`
Send(req) ==
  /\ booted
  /\ sendOn = NoSock
  /\ IF req = "missing"
       THEN resp' = Resp("/send", 400) /\ UNCHANGED sendOn
       ELSE IF ~state.isConnected \/ sock = NoSock
              THEN resp' = Resp("/send", 503) /\ UNCHANGED sendOn
              ELSE IF formatPhoneThrows(req)      \* caught by the handler's catch
                     THEN resp' = Resp("/send", 500) /\ UNCHANGED sendOn
                     ELSE resp' = NoResp /\ sendOn' = sock
  /\ UNCHANGED <<booted, sock, authFolder, timers, pc, phase, qrWait, saving, logoutOn>>
  /\ UNCHANGED <<vars42, vars43>>
  /\ UNCHANGED vars40

\* sock.sendMessage settles
SendResume(ok) ==
  /\ sendOn # NoSock
  /\ sendOn' = NoSock
  /\ resp' = Resp("/send", IF ok THEN 200 ELSE 500)
  /\ UNCHANGED <<booted, sock, authFolder, timers, pc, phase, qrWait, saving, logoutOn>>
  /\ UNCHANGED <<vars42, vars43>>
  /\ UNCHANGED vars40

\* the lifecycle with POST /send requests (credential writes left out: no
\* send handler reads the auth folder)
NextSend ==
  \/ Lifecycle
  \/ \E req \in Requests : Send(req)
  \/ \E ok \in BOOLEAN : SendResume(ok)

SpecSend == Init /\ [][NextSend]_vars

(***************************************************************************)
(*                      v4.3.0  (src/unnamed/part_004)                     *)
(***************************************************************************)
\* close reasons seen by the v4.3.0 handler; "undefined" is the close that
\* sock.end() with no error delivers
Codes43 == Codes \cup {"undefined"}

\* the globals the handlers write, as one record
Cur43 ==
  [connectionStatus |-> connectionStatus, isConnected |-> isConnected,
   isAuthenticated |-> isAuthenticated, isReady |-> isReady,
   lastError |-> lastError, qrCode |-> qrCode, qrDataUrl |-> qrDataUrl,
   reconnectAttempts |-> reconnectAttempts, authFolder |-> authFolder,
   timers |-> timers]

Set43(g) ==
  /\ connectionStatus' = g.connectionStatus
  /\ isConnected' = g.isConnected
  /\ isAuthenticated' = g.isAuthenticated
  /\ isReady' = g.isReady
  /\ lastError' = g.lastError
  /\ qrCode' = g.qrCode
  /\ qrDataUrl' = g.qrDataUrl
  /\ reconnectAttempts' = g.reconnectAttempts
  /\ authFolder' = g.authFolder
  /\ timers' = g.timers

\* updateState(updates): only the fields given are assigned
updateState43(g, updates) ==
  [k \in DOMAIN g |-> IF k \in DOMAIN updates THEN updates[k] ELSE g[k]]

\* connectWhatsApp up to its first await: there is no gate
connectWhatsApp43 ==
  LET a == Cardinality(Started) + 1 IN
  /\ a \in Attempts
  /\ pc' = [pc EXCEPT ![a] = "awaiting"]

\* app.listen callback
AppListen43 ==
  /\ ~booted
  /\ booted' = TRUE
  /\ connectWhatsApp43
  /\ resp' = NoResp
  /\ UNCHANGED <<sock, authFolder, timers, phase, qrWait, saving, logoutOn, sendOn>>
  /\ UNCHANGED <<vars42, vars43>>
  /\ UNCHANGED vars40

\* a pending setTimeout(connectWhatsApp, delay) fires
TimerFires43(t) ==
  /\ BagIn(t, timers)
  /\ timers' = timers (-) SetToBag({t})
  /\ connectWhatsApp43
  /\ resp' = NoResp
  /\ UNCHANGED <<booted, sock, authFolder, phase, qrWait, saving, logoutOn, sendOn>>
  /\ UNCHANGED <<vars42, vars43>>
  /\ UNCHANGED vars40

\* the awaits of the try block have returned: makeWASocket, `sock` assigned,
\* listeners attached, 10 s ready timer started
SocketMade43(a) ==
  /\ pc[a] = "awaiting"
  /\ sock' = a
  /\ pc' = [pc EXCEPT ![a] = "made"]
  /\ phase' = [phase EXCEPT ![a] = "connecting"]
  /\ readyTimer' = readyTimer \cup {a}
  /\ resp' = NoResp
  /\ UNCHANGED <<booted, authFolder, timers, qrWait, saving, logoutOn, sendOn>>
  /\ UNCHANGED <<vars42, qrCode, qrDataUrl, connectionStatus, isConnected,
                 isAuthenticated, isReady, lastError, reconnectAttempts, messages>>
  /\ UNCHANGED vars40

\* the library throws during setup: the catch block
SetupThrows43(a) ==
  /\ pc[a] = "awaiting"
  /\ pc' = [pc EXCEPT ![a] = "thrown"]
  /\ lastError' = "setup"
  /\ IF reconnectAttempts < MAX_RECONNECT_ATTEMPTS
       THEN /\ CanSchedule
            /\ reconnectAttempts' = reconnectAttempts + 1
            /\ timers' = setTimeout(timers, 5000, "catch")
       ELSE UNCHANGED <<reconnectAttempts, timers>>
  /\ resp' = NoResp
  /\ UNCHANGED <<booted, sock, authFolder, phase, qrWait, saving, logoutOn, sendOn>>
  /\ UNCHANGED <<vars42, qrCode, qrDataUrl, connectionStatus, isConnected,
                 isAuthenticated, isReady, messages, readyTimer>>
  /\ UNCHANGED vars40

\* update carrying a qr: the handler up to `await QRCode.toDataURL(qr)`
EvQr43(s) ==
  /\ phase[s] = "connecting"
  /\ QrWaiting < MaxQrWait
  /\ qrCode' = s
  /\ qrWait' = [qrWait EXCEPT ![s] = @ + 1]
  /\ resp' = NoResp
  /\ UNCHANGED <<booted, sock, authFolder, timers, pc, phase, saving, logoutOn, sendOn>>
  /\ UNCHANGED <<vars42, qrDataUrl, connectionStatus, isConnected,
                 isAuthenticated, isReady, lastError, reconnectAttempts,
                 messages, readyTimer>>
  /\ UNCHANGED vars40

\* ... and its continuation
QrResume43(s) ==
  /\ qrWait[s] > 0
  /\ qrWait' = [qrWait EXCEPT ![s] = @ - 1]
  /\ Set43([updateState43(Cur43, [connectionStatus |-> "waiting_qr",
                                  isConnected |-> FALSE,
                                  isAuthenticated |-> FALSE,
                                  isReady |-> FALSE])
              EXCEPT !.qrDataUrl = s])
  /\ resp' = NoResp
  /\ UNCHANGED <<booted, sock, pc, phase, saving, logoutOn, sendOn>>
  /\ UNCHANGED <<vars42, messages, readyTimer>>
  /\ UNCHANGED vars40

\* Math.min(5000 * reconnectAttempts, 30000)
reconnectDelay43(n) == Min(5000 * n, 30000)

\* the close branch of the handler
closeHandler43(g, code) ==
  LET g1 == [updateState43(g, [connectionStatus |-> "disconnected",
                               isConnected |-> FALSE, isReady |-> FALSE])
               EXCEPT !.qrCode = 0, !.qrDataUrl = 0]
      g2 == IF code = "loggedOut"
              THEN [g1 EXCEPT !.authFolder = FALSE, !.reconnectAttempts = 0]
              ELSE g1
  IN IF g2.reconnectAttempts < MAX_RECONNECT_ATTEMPTS
       THEN [g2 EXCEPT !.reconnectAttempts = @ + 1,
                       !.timers = setTimeout(@, reconnectDelay43(g2.reconnectAttempts + 1),
                                             "close")]
       ELSE updateState43(g2, [lastError |-> "max"])

\* sock.end() on handle s: a socket that has not ended delivers its close
\* update (no error, status code undefined) to the handler before returning
end43(g, s) ==
  IF s \in Live THEN closeHandler43(g, "undefined") ELSE g

\* update with connection = 'close' (the socket has ended)
EvClose43(s, code) ==
  /\ s \in Live
  /\ CanSchedule
  /\ phase' = [phase EXCEPT ![s] = "closed"]
  /\ Set43(closeHandler43(Cur43, code))
  /\ resp' = NoResp
  /\ UNCHANGED <<booted, sock, pc, qrWait, saving, logoutOn, sendOn>>
  /\ UNCHANGED <<vars42, messages, readyTimer>>
  /\ UNCHANGED vars40

\* update with connection = 'open'
EvOpen43(s) ==
  /\ phase[s] = "connecting"
  /\ phase' = [phase EXCEPT ![s] = "open"]
  /\ Set43([updateState43(Cur43, [connectionStatus |-> "connected",
                                  isConnected |-> TRUE,
                                  isAuthenticated |-> TRUE,
                                  lastError |-> "null"])
              EXCEPT !.reconnectAttempts = 0, !.qrCode = 0, !.qrDataUrl = 0])
  /\ resp' = NoResp
  /\ UNCHANGED <<booted, sock, pc, qrWait, saving, logoutOn, sendOn>>
  /\ UNCHANGED <<vars42, messages, readyTimer>>
  /\ UNCHANGED vars40

\* the capacity of the message log
LOG_CAP == 200

\* the logs explored: short ones, and ones within MaxLog records of the
\* capacity whose outbound records are all among the first 2 * MaxLog
LogBounded(log) ==
  \/ Len(log) <= MaxLog
  \/ /\ Len(log) >= LOG_CAP - MaxLog
     /\ Len(log) <= LOG_CAP + MaxLog
     /\ \A i \in (2 * MaxLog + 1)..Len(log) : ~log[i].fromMe

\* messages of one upsert event
Msg == [fromMe : BOOLEAN, hasMessage : BOOLEAN]
Batches == UNION {[1..n -> Msg] : n \in 0..MaxBatch}

\* the loop of the messages.upsert handler over a 'notify' batch
RECURSIVE upsertLog(_, _)
upsertLog(log, batch) ==
  IF batch = << >> THEN log
  ELSE LET msg == Head(batch)
           l1 == IF ~msg.fromMe /\ msg.hasMessage
                   THEN <<[fromMe |-> FALSE]>> \o log
                   ELSE log
           l2 == IF Len(l1) > LOG_CAP THEN SubSeq(l1, 1, LOG_CAP) ELSE l1
       IN upsertLog(l2, Tail(batch))

\* messages.upsert listener
EvUpsert43(s, type, batch) ==
  /\ phase[s] = "open"
  /\ isReady' = IF ~isReady /\ isConnected THEN TRUE ELSE isReady
  /\ messages' = IF type = "notify" THEN upsertLog(messages, batch) ELSE messages
  /\ LogBounded(messages')
  /\ resp' = NoResp
  /\ UNCHANGED <<booted, sock, authFolder, timers, pc, phase, qrWait, saving,
                 logoutOn, sendOn>>
  /\ UNCHANGED <<vars42, qrCode, qrDataUrl, connectionStatus, isConnected,
                 isAuthenticated, lastError, reconnectAttempts, readyTimer>>
  /\ UNCHANGED vars40

\* the 10 s timer started by run a fires
ReadyTimerFires43(a) ==
  /\ a \in readyTimer
  /\ readyTimer' = readyTimer \ {a}
  /\ isReady' = IF isConnected /\ ~isReady THEN TRUE ELSE isReady
  /\ resp' = NoResp
  /\ UNCHANGED <<booted, sock, authFolder, timers, pc, phase, qrWait, saving,
                 logoutOn, sendOn>>
  /\ UNCHANGED <<vars42, qrCode, qrDataUrl, connectionStatus, isConnected,
                 isAuthenticated, lastError, reconnectAttempts, messages>>
  /\ UNCHANGED vars40

\* POST /send up to `await sock.sendMessage(jid, { text: message })`
Send43(valid) ==
  /\ booted
  /\ sendOn = NoSock
  /\ IF ~valid
       THEN resp' = Resp("/send", 400) /\ UNCHANGED sendOn
       ELSE IF ~isConnected \/ ~isReady
              THEN resp' = Resp("/send", 503) /\ UNCHANGED sendOn
              ELSE IF sock = NoSock       \* sock.sendMessage on null throws
                     THEN resp' = Resp("/send", 500) /\ UNCHANGED sendOn
                     ELSE resp' = NoResp /\ sendOn' = sock
  /\ UNCHANGED <<booted, sock, authFolder, timers, pc, phase, qrWait, saving, logoutOn>>
  /\ UNCHANGED <<vars42, vars43>>
  /\ UNCHANGED vars40

\* SendResume43 with the record pushed at the tail of the log
SendResume43_push(ok) ==
  /\ sendOn # NoSock
  /\ sendOn' = NoSock
  /\ IF ok
       THEN /\ messages' = Append(messages, [fromMe |-> TRUE])
            /\ LogBounded(messages')
            /\ resp' = Resp("/send", 200)
       ELSE /\ resp' = Resp("/send", 500)
            /\ UNCHANGED messages
  /\ UNCHANGED <<booted, sock, authFolder, timers, pc, phase, qrWait, saving, logoutOn>>
  /\ UNCHANGED <<vars42, qrCode, qrDataUrl, connectionStatus, isConnected,
                 isAuthenticated, isReady, lastError, reconnectAttempts, readyTimer>>
  /\ UNCHANGED vars40

\* sock.sendMessage settles
SendResume43(ok) ==
  /\ sendOn # NoSock
  /\ sendOn' = NoSock
  /\ IF ok
       THEN /\ messages' = <<[fromMe |-> TRUE]>> \o messages
            /\ LogBounded(messages')
            /\ resp' = Resp("/send", 200)
       ELSE /\ resp' = Resp("/send", 500)
            /\ UNCHANGED messages
  /\ UNCHANGED <<booted, sock, authFolder, timers, pc, phase, qrWait, saving, logoutOn>>
  /\ UNCHANGED <<vars42, qrCode, qrDataUrl, connectionStatus, isConnected,
                 isAuthenticated, isReady, lastError, reconnectAttempts, readyTimer>>
  /\ UNCHANGED vars40

\* POST /logout from the wipe to the response
logoutTail43(g) ==
  [updateState43([g EXCEPT !.authFolder = FALSE],
                 [connectionStatus |-> "disconnected", isConnected |-> FALSE,
                  isAuthenticated |-> FALSE, isReady |-> FALSE])
     EXCEPT !.qrCode = 0, !.qrDataUrl = 0,
            !.timers = setTimeout(@, 2000, "logout")]

\* POST /logout up to `await sock.logout()`; with sock = null it runs to its end
Logout43 ==
  /\ booted
  /\ logoutOn = NoSock
  /\ IF sock # NoSock
       THEN /\ logoutOn' = sock
            /\ resp' = NoResp
            /\ UNCHANGED <<authFolder, timers, qrCode, qrDataUrl, connectionStatus,
                           isConnected, isAuthenticated, isReady, lastError,
                           reconnectAttempts>>
       ELSE /\ CanSchedule
            /\ Set43(logoutTail43(Cur43))
            /\ resp' = Resp("/logout", 200)
            /\ UNCHANGED logoutOn
  /\ UNCHANGED <<booted, sock, pc, phase, qrWait, saving, sendOn>>
  /\ UNCHANGED <<vars42, messages, readyTimer>>
  /\ UNCHANGED vars40

\* sock.logout() settles: resolved, then sock.end() on the current `sock` and
\* the rest of the try block; or rejected, and the catch answers 500
LogoutResume43(ok) ==
  /\ logoutOn # NoSock
  /\ logoutOn' = NoSock
  /\ IF ok
       THEN /\ phase[logoutOn] = "closed"
            /\ BagCardinality(timers) + 2 <= MaxTimers \/ (sock \notin Live /\ CanSchedule)
            /\ phase' = IF sock \in Live THEN [phase EXCEPT ![sock] = "closed"] ELSE phase
            /\ Set43(logoutTail43(end43(Cur43, sock)))
            /\ resp' = Resp("/logout", 200)
       ELSE /\ resp' = Resp("/logout", 500)
            /\ UNCHANGED <<phase, authFolder, timers, qrCode, qrDataUrl,
                           connectionStatus, isConnected, isAuthenticated, isReady,
                           lastError, reconnectAttempts>>
  /\ UNCHANGED <<booted, sock, pc, qrWait, saving, sendOn>>
  /\ UNCHANGED <<vars42, messages, readyTimer>>
  /\ UNCHANGED vars40

\* POST /force-reset
ForceReset43 ==
  /\ booted
  /\ BagCardinality(timers) + 2 <= MaxTimers \/ (sock \notin Live /\ CanSchedule)
  /\ phase' = IF sock \in Live THEN [phase EXCEPT ![sock] = "closed"] ELSE phase
  /\ LET g1 == end43(Cur43, sock)
         g2 == updateState43([g1 EXCEPT !.authFolder = FALSE],
                             [connectionStatus |-> "disconnected",
                              isConnected |-> FALSE, isAuthenticated |-> FALSE,
                              isReady |-> FALSE, lastError |-> "null"])
     IN Set43([g2 EXCEPT !.qrCode = 0, !.qrDataUrl = 0, !.reconnectAttempts = 0,
                         !.timers = setTimeout(@, 1000, "force_reset")])
  /\ resp' = Resp("/force-reset", 200)
  /\ UNCHANGED <<booted, sock, pc, qrWait, saving, logoutOn, sendOn>>
  /\ UNCHANGED <<vars42, messages, readyTimer>>
  /\ UNCHANGED vars40

\* a session that connects, becomes ready, drops and reconnects, with inbound
\* messages
Session43 ==
  \/ AppListen43
  \/ \E t \in BagToSet(timers) : TimerFires43(t)
  \/ \E a \in Attempts : SocketMade43(a)
  \/ \E a \in Attempts : SetupThrows43(a)
  \/ \E s \in Attempts, c \in Codes : EvClose43(s, c)
  \/ \E s \in Attempts : EvOpen43(s)
  \/ \E s \in Attempts, type \in {"notify", "append"}, batch \in Batches :
       EvUpsert43(s, type, batch)
  \/ \E a \in Attempts : ReadyTimerFires43(a)

\* the whole connection lifecycle: pairing and operator actions too
Next43 ==
  \/ Session43
  \/ \E s \in Attempts : EvQr43(s)
  \/ \E s \in Attempts : QrResume43(s)
  \/ Logout43
  \/ \E ok \in BOOLEAN : LogoutResume43(ok)
  \/ ForceReset43

Spec43 == Init /\ [][Next43]_vars

\* the lifecycle with no inbound message and no operator request
Quiet43 ==
  \/ AppListen43
  \/ \E t \in BagToSet(timers) : TimerFires43(t)
  \/ \E a \in Attempts : SocketMade43(a)
  \/ \E a \in Attempts : SetupThrows43(a)
  \/ \E s \in Attempts : EvQr43(s)
  \/ \E s \in Attempts : QrResume43(s)
  \/ \E s \in Attempts, c \in Codes : EvClose43(s, c)
  \/ \E s \in Attempts : EvOpen43(s)
  \/ \E a \in Attempts : ReadyTimerFires43(a)

\* the runtime runs the app.listen callback, every timer that is due and every
\* continuation whose await has settled
Fair43 ==
  /\ Init /\ [][Quiet43]_vars
  /\ WF_vars(AppListen43)
  /\ WF_vars(\E t \in BagToSet(timers) : TimerFires43(t))
  /\ WF_vars(\E s \in Attempts : QrResume43(s))
  /\ WF_vars(\E a \in Attempts : ReadyTimerFires43(a))

\* the session with POST /send requests
NextSend43 ==
  \/ Session43
  \/ \E valid \in BOOLEAN : Send43(valid)
  \/ \E ok \in BOOLEAN : SendResume43(ok)

SpecSend43 == Init /\ [][NextSend43]_vars

\* the server with one session open and ready (app.listen, makeWASocket, open,
\* first upsert) after n inbound messages have been logged
Logged43(n) ==
  /\ booted = TRUE
  /\ sock = 1
  /\ authFolder \in BOOLEAN
  /\ timers = EmptyBag
  /\ pc = [a \in Attempts |-> IF a = 1 THEN "made" ELSE "none"]
  /\ phase = [a \in Attempts |-> IF a = 1 THEN "open" ELSE "none"]
  /\ qrWait = [a \in Attempts |-> 0]
  /\ saving = {}
  /\ logoutOn = NoSock
  /\ sendOn = NoSock
  /\ resp = NoResp
  /\ qrCodeData = 0
  /\ qrAttempts = 0
  /\ state = state0
  /\ superseded = {}
  /\ wiped = FALSE
  /\ stale = EmptyBag
  /\ accepted = 0
  /\ loggedOut = {}
  /\ qrDropped = FALSE
  /\ qrCode = 0
  /\ qrDataUrl = 0
  /\ connectionStatus = "connected"
  /\ isConnected = TRUE
  /\ isAuthenticated = TRUE
  /\ isReady = TRUE
  /\ lastError = "null"
  /\ reconnectAttempts = 0
  /\ messages = [i \in 1..n |-> [fromMe |-> FALSE]]
  /\ emitted = 0
  /\ downloads = {}
  /\ readyTimer \in {{}, {1}}

\* inbound messages and POST /send requests on that session
Traffic43 ==
  \/ \E s \in Attempts, type \in {"notify", "append"}, batch \in Batches :
       EvUpsert43(s, type, batch)
  \/ \E a \in Attempts : ReadyTimerFires43(a)
  \/ \E valid \in BOOLEAN : Send43(valid)
  \/ \E ok \in BOOLEAN : SendResume43(ok)

\* ... from a log one record short of its capacity
SpecLog43 == Logged43(LOG_CAP - 1) /\ [][Traffic43]_vars

\* the server after its first n runs of connectWhatsApp have all thrown during
\* setup (n <= MAX_RECONNECT_ATTEMPTS): the catch block has counted them and
\* its latest timer is pending; the runs and sockets of the model are the ones
\* to come
Worn43(n) ==
  /\ booted = TRUE
  /\ sock = NoSock
  /\ authFolder \in BOOLEAN
  /\ timers = SetToBag({Timer(5000, "catch")})
  /\ pc = [a \in Attempts |-> "none"]
  /\ phase = [a \in Attempts |-> "none"]
  /\ qrWait = [a \in Attempts |-> 0]
  /\ saving = {}
  /\ logoutOn = NoSock
  /\ sendOn = NoSock
  /\ resp = NoResp
  /\ qrCodeData = 0
  /\ qrAttempts = 0
  /\ state = state0
  /\ superseded = {}
  /\ wiped = FALSE
  /\ stale = EmptyBag
  /\ accepted = 0
  /\ loggedOut = {}
  /\ qrDropped = FALSE
  /\ qrCode = 0
  /\ qrDataUrl = 0
  /\ connectionStatus = "disconnected"
  /\ isConnected = FALSE
  /\ isAuthenticated = FALSE
  /\ isReady = FALSE
  /\ lastError = "setup"
  /\ reconnectAttempts = n
  /\ messages = << >>
  /\ emitted = 0
  /\ downloads = {}
  /\ readyTimer = {}

\* automatic reconnection, with no operator request
Retry43 ==
  \/ \E t \in BagToSet(timers) : TimerFires43(t)
  \/ \E a \in Attempts : SocketMade43(a)
  \/ \E a \in Attempts : SetupThrows43(a)
  \/ \E s \in Attempts : EvQr43(s)
  \/ \E s \in Attempts : QrResume43(s)
  \/ \E s \in Attempts, c \in Codes : EvClose43(s, c)
  \/ \E s \in Attempts : EvOpen43(s)
  \/ \E a \in Attempts : ReadyTimerFires43(a)

\* ... from a server one failure short of the reconnect limit
SpecBound43 == Worn43(MAX_RECONNECT_ATTEMPTS - 1) /\ [][Retry43]_vars

(***************************************************************************)
(*                       v4.0  (src/unnamed/part_003)                      *)
(***************************************************************************)
\* The v4.0 server keeps its connection state in the globals sock, qrCode,
\* qrDataUrl, connectionStatus and reconnectAttempts.  `wiped` records that a
\* loggedOut close cleared the credentials and no connectWhatsApp run has
\* started since.

\* the variables no v4.0 turn below writes
rest40 == <<saving, sendOn, qrCodeData, qrAttempts, state, superseded, stale,
            accepted, loggedOut, qrDropped, isConnected, isAuthenticated, isReady, lastError,
            messages, readyTimer>>

\* connectWhatsApp up to its first await: there is no gate
connectWhatsApp40 ==
  LET a == Cardinality(Started) + 1 IN
  /\ a \in Attempts
  /\ pc' = [pc EXCEPT ![a] = "awaiting"]
  /\ wiped' = FALSE

\* app.listen callback
AppListen40 ==
  /\ ~booted
  /\ booted' = TRUE
  /\ connectWhatsApp40
  /\ resp' = NoResp
  /\ UNCHANGED <<sock, authFolder, timers, phase, qrWait, logoutOn>>
  /\ UNCHANGED <<qrCode, qrDataUrl, connectionStatus, reconnectAttempts, rest40>>
  /\ UNCHANGED vars40

\* a pending setTimeout(connectWhatsApp, delay) fires
TimerFires40(t) ==
  /\ BagIn(t, timers)
  /\ timers' = timers (-) SetToBag({t})
  /\ connectWhatsApp40
  /\ resp' = NoResp
  /\ UNCHANGED <<booted, sock, authFolder, phase, qrWait, logoutOn>>
  /\ UNCHANGED <<qrCode, qrDataUrl, connectionStatus, reconnectAttempts, rest40>>
  /\ UNCHANGED vars40

\* the awaits of the try block have returned: makeWASocket, `sock` assigned,
\* listeners attached
SocketMade40(a) ==
  /\ pc[a] = "awaiting"
  /\ sock' = a
  /\ pc' = [pc EXCEPT ![a] = "made"]
  /\ phase' = [phase EXCEPT ![a] = "connecting"]
  /\ resp' = NoResp
  /\ UNCHANGED <<booted, authFolder, timers, qrWait, logoutOn, wiped>>
  /\ UNCHANGED <<qrCode, qrDataUrl, connectionStatus, reconnectAttempts, rest40>>
  /\ UNCHANGED vars40

\* Math.min(5000 * reconnectAttempts, 60000)
reconnectDelay40(n) == Min(5000 * n, 60000)

\* the library throws during setup: the catch block
SetupThrows40(a) ==
  /\ pc[a] = "awaiting"
  /\ CanSchedule
  /\ pc' = [pc EXCEPT ![a] = "thrown"]
  /\ connectionStatus' = "error"
  /\ reconnectAttempts' = reconnectAttempts + 1
  /\ timers' = setTimeout(timers, reconnectDelay40(reconnectAttempts + 1), "catch")
  /\ resp' = NoResp
  /\ UNCHANGED <<booted, sock, authFolder, phase, qrWait, logoutOn, wiped>>
  /\ UNCHANGED <<qrCode, qrDataUrl, rest40>>
  /\ UNCHANGED vars40

\* update carrying a qr: the handler up to `await QRCode.toDataURL(qr)`
EvQr40(s) ==
  /\ phase[s] = "connecting"
  /\ QrWaiting < MaxQrWait
  /\ qrCode' = s
  /\ qrWait' = [qrWait EXCEPT ![s] = @ + 1]
  /\ resp' = NoResp
  /\ UNCHANGED <<booted, sock, authFolder, timers, pc, phase, logoutOn, wiped>>
  /\ UNCHANGED <<qrDataUrl, connectionStatus, reconnectAttempts, rest40>>
  /\ UNCHANGED vars40

\* ... and its continuation
QrResume40(s) ==
  /\ qrWait[s] > 0
  /\ qrWait' = [qrWait EXCEPT ![s] = @ - 1]
  /\ qrDataUrl' = s
  /\ connectionStatus' = "waiting_qr"
  /\ resp' = NoResp
  /\ UNCHANGED <<booted, sock, authFolder, timers, pc, phase, logoutOn, wiped>>
  /\ UNCHANGED <<qrCode, reconnectAttempts, rest40>>
  /\ UNCHANGED vars40

\* update with connection = 'open'
EvOpen40(s) ==
  /\ phase[s] = "connecting"
  /\ phase' = [phase EXCEPT ![s] = "open"]
  /\ connectionStatus' = "connected"
  /\ reconnectAttempts' = 0
  /\ qrCode' = 0
  /\ qrDataUrl' = 0
  /\ resp' = NoResp
  /\ UNCHANGED <<booted, sock, authFolder, timers, pc, qrWait, logoutOn, wiped>>
  /\ UNCHANGED rest40
  /\ UNCHANGED vars40

\* update with connection = 'close' (the socket has ended)
EvClose40(s, code) ==
  /\ s \in Live
  /\ phase' = [phase EXCEPT ![s] = "closed"]
  /\ connectionStatus' = "disconnected"
  /\ IF code # "loggedOut"                \* shouldReconnect
       THEN /\ CanSchedule
            /\ reconnectAttempts' = reconnectAttempts + 1
            /\ timers' = setTimeout(timers, reconnectDelay40(reconnectAttempts + 1),
                                    "close")
            /\ UNCHANGED <<authFolder, wiped>>
       ELSE /\ authFolder' = FALSE
            /\ wiped' = TRUE
            /\ UNCHANGED <<reconnectAttempts, timers>>
  /\ resp' = NoResp
  /\ UNCHANGED <<booted, sock, pc, qrWait, logoutOn>>
  /\ UNCHANGED <<qrCode, qrDataUrl, rest40>>
  /\ UNCHANGED vars40

\* POST /logout up to `await sock.logout()`; with sock = null it runs to its end
Logout40 ==
  /\ booted
  /\ logoutOn = NoSock
  /\ IF sock # NoSock
       THEN /\ logoutOn' = sock
            /\ resp' = NoResp
            /\ UNCHANGED <<authFolder, connectionStatus, qrCode, qrDataUrl>>
       ELSE /\ connectionStatus' = "disconnected"
            /\ qrCode' = 0
            /\ qrDataUrl' = 0
            /\ authFolder' = FALSE
            /\ resp' = Resp("/logout", 200)
            /\ UNCHANGED logoutOn
  /\ UNCHANGED <<booted, sock, timers, pc, phase, qrWait, wiped>>
  /\ UNCHANGED <<reconnectAttempts, rest40>>
  /\ UNCHANGED vars40

\* sock.logout() settles: resolved (the library has ended the socket), then
\* the rest of the try block; or rejected, and the catch answers 500
LogoutResume40(ok) ==
  /\ logoutOn # NoSock
  /\ logoutOn' = NoSock
  /\ IF ok
       THEN /\ phase[logoutOn] = "closed"
            /\ connectionStatus' = "disconnected"
            /\ qrCode' = 0
            /\ qrDataUrl' = 0
            /\ authFolder' = FALSE
            /\ resp' = Resp("/logout", 200)
       ELSE /\ resp' = Resp("/logout", 500)
            /\ UNCHANGED <<authFolder, connectionStatus, qrCode, qrDataUrl>>
  /\ UNCHANGED <<booted, sock, timers, pc, phase, qrWait, wiped>>
  /\ UNCHANGED <<reconnectAttempts, rest40>>
  /\ UNCHANGED vars40

Next40 ==
  \/ AppListen40
  \/ \E t \in BagToSet(timers) : TimerFires40(t)
  \/ \E a \in Attempts : SocketMade40(a)
  \/ \E a \in Attempts : SetupThrows40(a)
  \/ \E s \in Attempts : EvQr40(s)
  \/ \E s \in Attempts : QrResume40(s)
  \/ \E s \in Attempts : EvOpen40(s)
  \/ \E s \in Attempts, c \in Codes : EvClose40(s, c)
  \/ Logout40
  \/ \E ok \in BOOLEAN : LogoutResume40(ok)

Spec40 == Init /\ [][Next40]_vars

\* the runtime runs the app.listen callback, every timer that is due and every
\* continuation whose await has settled; what the library and the clients do
\* is up to them
Fair40 ==
  /\ Spec40
  /\ WF_vars(AppListen40)
  /\ WF_vars(\E t \in BagToSet(timers) : TimerFires40(t))
  /\ WF_vars(\E s \in Attempts : QrResume40(s))

(* ---------------- v4.0: the message log ---------------- *)
\* bound on the number of messages the library emits
MaxEmitted == 3

\* what the handler finds in one message: no msg.message or no supported key
\* ("none"), conversation/extendedTextMessage ("text"), or one of the five
\* media keys ("media")
Kinds40 == {"none", "text", "media"}
Batches40 == UNION {[1..n -> Kinds40] : n \in 0..MaxBatch}

\* messages.unshift(messageData), then the slice to MAX_MESSAGES
push40(log, messageData) ==
  LET l1 == <<messageData>> \o log
  IN IF Len(l1) > MAX_MESSAGES THEN SubSeq(l1, 1, MAX_MESSAGES) ELSE l1

\* the for loop of the handler over msgs, up to the end or to the first
\* `await downloadAndSaveMedia`: the log, and the messages left (the one being
\* downloaded first)
RECURSIVE loop40(_, _)
loop40(log, msgs) ==
  IF msgs = << >> THEN [log |-> log, rest |-> << >>]
  ELSE LET msg == Head(msgs)
       IN IF msg.kind = "none" THEN loop40(log, Tail(msgs))          \* continue
          ELSE IF msg.kind = "media" THEN [log |-> log, rest |-> msgs]  \* await
          ELSE loop40(push40(log, [seq |-> msg.seq, media |-> FALSE]), Tail(msgs))

\* messages.upsert listener, up to its first await or its end
EvUpsert40(s, type, batch) ==
  /\ phase[s] = "open"
  /\ emitted + Len(batch) <= MaxEmitted
  /\ emitted' = emitted + Len(batch)
  /\ LET msgs == [k \in 1..Len(batch) |-> [seq |-> emitted + k, kind |-> batch[k]]]
         r == IF type # "notify" THEN [log |-> messages, rest |-> << >>]
              ELSE loop40(messages, msgs)
     IN /\ messages' = r.log
        /\ downloads' = IF r.rest = << >> THEN downloads ELSE downloads \cup {r.rest}
  /\ resp' = NoResp
  /\ UNCHANGED <<booted, sock, authFolder, timers, pc, phase, qrWait, saving,
                 logoutOn, sendOn>>
  /\ UNCHANGED vars42
  /\ UNCHANGED <<qrCode, qrDataUrl, connectionStatus, isConnected, isAuthenticated,
                 isReady, lastError, reconnectAttempts, readyTimer>>

\* downloadAndSaveMedia has settled (ok: it returned the media info, else
\* null): the handler logs the message and goes on with the loop
DownloadDone40(h, ok) ==
  /\ h \in downloads
  /\ LET r == loop40(push40(messages, [seq |-> Head(h).seq, media |-> ok]), Tail(h))
     IN /\ messages' = r.log
        /\ downloads' = IF r.rest = << >> THEN downloads \ {h}
                        ELSE (downloads \ {h}) \cup {r.rest}
  /\ resp' = NoResp
  /\ UNCHANGED <<booted, sock, authFolder, timers, pc, phase, qrWait, saving,
                 logoutOn, sendOn>>
  /\ UNCHANGED vars42
  /\ UNCHANGED <<qrCode, qrDataUrl, connectionStatus, isConnected, isAuthenticated,
                 isReady, lastError, reconnectAttempts, readyTimer, emitted>>

\* a session that opens and receives messages
Inbox40 ==
  \/ AppListen40
  \/ \E a \in Attempts : SocketMade40(a)
  \/ \E s \in Attempts : EvOpen40(s)
  \/ \E s \in Attempts, type \in {"notify", "append"}, batch \in Batches40 :
       EvUpsert40(s, type, batch)
  \/ \E h \in downloads, ok \in BOOLEAN : DownloadDone40(h, ok)

SpecLog40 == Init /\ [][Inbox40]_vars

(***************************************************************************)
(*                         claims, v4.2.0                                  *)
(***************************************************************************)
Fatal == {"loggedOut", "badSession"}
LogoutTimer == Timer(1000, "logout")

\* C1: two connection attempts never overlap: no run passes the isConnecting
\* gate while an earlier run is still in flight
C1_NoOverlap == Cardinality(InFlight) <= 1

\* C2: after a /force-reset handled while status = 'connecting', the open,
\* close and qr events of the superseded run's socket change neither state,
\* qrCodeData, qrAttempts, the session store nor the pending timers
C2_StaleEventsInert ==
  [][\A s \in superseded :
       (EvOpen(s) \/ QrResume(s) \/ \E c \in Codes : EvClose(s, c))
         => UNCHANGED <<state, qrCodeData, qrAttempts, authFolder, timers>>]_vars

\* C3: at most one scheduled connectWhatsApp timer is pending at any moment
C3_OneTimer == BagCardinality(timers) <= 1

\* C4: after a fatal close the session store is empty and stays empty until
\* the next run passes the gate
C4_WipedStaysEmpty == wiped => ~checkSession

\* C5: reconnectAttempts is 0 right after every open and every session
\* invalidation (fatal close, /logout, /force-reset), grows by exactly 1 on a
\* transient close, and is changed by nothing else
C5_ReconnectCounter ==
  [][LET ra == state.reconnectAttempts
         raN == state'.reconnectAttempts
     IN IF \E s \in Attempts : EvOpen(s) THEN raN = 0
        ELSE IF \E s \in Attempts, c \in Fatal : EvClose(s, c) THEN raN = 0
        ELSE IF ForceReset THEN raN = 0
        ELSE IF (Logout /\ sock = NoSock) \/ \E ok \in BOOLEAN : LogoutResume(ok)
               THEN raN = 0
        ELSE IF \E s \in Attempts, c \in Codes \ Fatal : EvClose(s, c)
               THEN raN = ra + 1
        ELSE raN = ra]_vars

\* C6: qrAttempts never exceeds MAX_QR_ATTEMPTS
C6_QrBudget == qrAttempts <= MAX_QR_ATTEMPTS

\* C7: the run scheduled by /logout starts with an empty session store
\* (hasSession = false) and with QR budget left, so that its first QR event
\* is accepted and leads to waiting_qr
C7_LogoutThenConnectFresh ==
  [][(TimerFires(LogoutTimer) /\ ~state.isConnecting)
       => (~state'.hasSession /\ qrAttempts' < MAX_QR_ATTEMPTS)]_vars

\* C8: a valid POST /send handled while status = 'waiting_qr' answers 503 and
\* does not call sock.sendMessage
C8_SendWhileWaitingQr ==
  [][(Send("string") /\ state.status = "waiting_qr")
       => (resp' = Resp("/send", 503) /\ sendOn' = NoSock)]_vars

\* C11: a QR payload is held (qrCodeData not null) only while
\* state.status = 'waiting_qr'
C11_QrOnlyWhileWaiting == qrCodeData # 0 => state.status = "waiting_qr"

\* C12: at most one socket is live (listeners attached, not ended) at any
\* moment
C12_OneLiveSocket == Cardinality(Live) <= 1

\* C13: once a /logout or /force-reset handler has completed, connectWhatsApp
\* is never invoked by a timer that was scheduled before that handler ran
C13_NoStaleReconnect ==
  [][\A t \in BagToSet(stale) : ~TimerFires(t)]_vars

\* C14: the server never drops into a stuck state: every close event, whatever
\* its status code, schedules a reconnect; whenever isConnected = false (once
\* the server is listening) an attempt is in flight or a reconnect timer is
\* pending; every timer that fires starts an attempt or finds one in flight,
\* and a pending timer leads to an attempt in flight (as long as the model has
\* runs left)
C14_NeverStuck ==
  /\ []((booted /\ ~state.isConnected) => (InFlight # {} \/ timers # EmptyBag))
  /\ [][(\E s \in Attempts, c \in Codes : EvClose(s, c))
          => BagCardinality(timers') = BagCardinality(timers) + 1]_vars
  /\ [][(\E t \in BagToSet(timers) : TimerFires(t)) => InFlight' # {}]_vars
  /\ (timers # EmptyBag) ~> (InFlight # {} \/ Cardinality(Started) = MaxAttempts)

\* a socket has closed with a fatal code, and only the timer of that close
\* stands between the server and a stuck state
C14_Witness ==
  /\ booted
  /\ ~state.isConnected
  /\ InFlight = {}
  /\ timers = SetToBag({Timer(2000, "close_fatal")})
  /\ \E s \in Attempts : phase[s] = "closed"

\* C16: every POST /send request, whatever its outcome, leaves state,
\* qrCodeData, qrAttempts, the sock reference, the session store and the
\* pending timers unchanged, and calls sock.sendMessage exactly once when it
\* answers 200 or 500 and never when it answers 400 or 503
C16_SendFrame ==
  [][/\ ((\E req \in Requests : Send(req)) \/ (\E ok \in BOOLEAN : SendResume(ok)))
          => UNCHANGED <<state, qrCodeData, qrAttempts, sock, authFolder, timers>>
     /\ (resp'.route = "/send" /\ resp'.code \in {200, 500})
          => (sendOn # NoSock /\ sendOn' = NoSock)
     /\ (resp'.route = "/send" /\ resp'.code \in {400, 503})
          => (sendOn = NoSock /\ sendOn' = NoSock)
     /\ (sendOn = NoSock /\ sendOn' # NoSock) => resp' = NoResp]_vars

\* C17: the outcome of POST /send is decided in this order: phone or text
\* missing gives 400; otherwise isConnected = false or sock = null gives 503;
\* otherwise sock.sendMessage is called, and its rejection gives 500, its
\* success 200
C17_SendOutcomeOrder ==
  [][/\ \A req \in Requests :
          Send(req) =>
            IF req = "missing" THEN resp' = Resp("/send", 400)
            ELSE IF ~state.isConnected \/ sock = NoSock THEN resp' = Resp("/send", 503)
            ELSE resp' = NoResp /\ sendOn' = sock
     /\ \A ok \in BOOLEAN :
          SendResume(ok) => resp' = Resp("/send", IF ok THEN 200 ELSE 500)]_vars

\* the accepted messages in reverse order of acceptance, truncated to the
\* MAX_MESSAGES most recent
Expected(n) == [i \in 1..Min(n, MAX_MESSAGES) |-> [id |-> n - i + 1]]

\* C19: after any sequence of messages.upsert events the list that
\* GET /messages returns is the accepted messages, newest first, truncated to
\* the 100 most recent, and state.messagesCount is its length
C19_LogIsRecentAccepted ==
  /\ messages = Expected(accepted)
  /\ state.messagesCount = Len(messages)

\* GET /messages answered after the oldest accepted message was dropped
C19_Witness ==
  /\ resp = Resp("/messages", 200)
  /\ accepted = MAX_MESSAGES + 1
  /\ Len(messages) = MAX_MESSAGES
  /\ messages[MAX_MESSAGES].id = 2

\* C21: an open or close event of an attempt's socket never clears
\* isConnecting while a newer attempt is in flight
C21_GateClearedByOwner ==
  [][\A s \in Attempts :
       ((EvOpen(s) \/ \E c \in Codes : EvClose(s, c))
          /\ state.isConnecting /\ ~state'.isConnecting)
         => ~\E a \in InFlight : a > s]_vars

\* C22: once POST /logout has completed, no event of the socket it logged out
\* (a close, an open, a credentials write) changes state, the session store or
\* the pending timers
C22_LoggedOutSocketInert ==
  [][\A s \in loggedOut :
       (EvOpen(s) \/ CredsSaved(s) \/ \E c \in Codes : EvClose(s, c))
         => UNCHANGED <<state, authFolder, timers>>]_vars

\* C23: the state with isConnected = true and status = 'waiting_qr' or
\* qrAvailable = true is unreachable
C23_NoQrWhileConnected ==
  state.isConnected => (state.status # "waiting_qr" /\ ~state.qrAvailable)

\* C24: whenever a send handler calls sock.sendMessage, `sock` is the open
\* socket: it has emitted open and has neither emitted close nor been ended
C24_SendOnActiveSocket ==
  [][(sendOn = NoSock /\ sendOn' # NoSock) => phase[sendOn'] = "open"]_vars

\* C25: an exception thrown during connection setup sets status to 'error',
\* releases isConnecting and schedules exactly one reconnect with the backoff of
\* a transient close: reconnectAttempts incremented, delay computed from it
C25_SetupErrorBacksOff ==
  [][\A a \in Attempts :
       SetupThrows(a)
         => /\ state'.status = "error"
            /\ ~state'.isConnecting
            /\ state'.reconnectAttempts = state.reconnectAttempts + 1
            /\ timers' = setTimeout(timers, reconnectDelay(state.reconnectAttempts),
                                    "catch")]_vars

\* C26: when a qr update arrives with the QR budget used up, the server
\* surfaces that it gave up: status becomes 'error' and the last QR payload is
\* no longer reported as available
C26_BudgetExhaustedSurfaced ==
  [][(~qrDropped /\ qrDropped')
       => /\ state'.status = "error"
          /\ qrCodeData' = 0
          /\ ~state'.qrAvailable]_vars

\* C27: the reconnect scheduled by a transient close is due after
\* min(5000 * n, 30000) ms, n being state.reconnectAttempts after the increment
C27_TransientDelay ==
  [][\A s \in Attempts, c \in Codes \ Fatal :
       EvClose(s, c)
         => timers' = setTimeout(timers, Min(5000 * state'.reconnectAttempts, 30000),
                                 "close_transient")]_vars

\* C32: no run of connectWhatsApp passes the gate while a connection is open
C32_NoGatePassWhileConnected ==
  [][\A a \in Attempts :
       (pc[a] # "awaiting" /\ pc'[a] = "awaiting") => ~state.isConnected]_vars

\* C33: state.qrAvailable is true exactly when qrCodeData is not null
C33_QrFlagMatchesPayload == state.qrAvailable <=> (qrCodeData # 0)

\* the QR budget is used up and no QR rendering is pending: the guard of the
\* qr branch is false and no continuation is left to publish a code
QrSpent == qrAttempts >= MAX_QR_ATTEMPTS /\ QrWaiting = 0

\* without an open, a fatal close, /logout or /force-reset, a spent budget
\* stays spent and the published payload never changes again
QrSpentForGood == [][QrSpent => (QrSpent' /\ qrCodeData' = qrCodeData)]_vars

\* C34: after a transient close and the automatic reconnect, while the new
\* socket waits to be paired, the server is never in a state from which no QR
\* code is published again
C34_QrPublishedAgain ==
  \A s \in Attempts :
    (phase[s] = "connecting" /\ \E t \in Attempts : phase[t] = "closed") => ~QrSpent

\* C35: a fatal close whose session wipe throws still schedules a reconnect
\* and leaves isConnecting false
C35_WipeFailureRecovers ==
  [][\A s \in Attempts, c \in Fatal :
       EvCloseWipeThrows(s, c)
         => /\ ~state'.isConnecting
            /\ BagCardinality(timers') = BagCardinality(timers) + 1]_vars

(***************************************************************************)
(*                         claims, v4.3.0                                  *)
(***************************************************************************)
\* C9: a POST /send reaches sock.sendMessage only while isConnected and
\* isReady; when the call succeeds the request answers 200 and exactly one
\* record with fromMe = true is added at the head of the message log; a
\* request answered 400, 503 or 500 adds no record
C9_SendLogsOneOutbound ==
  [][/\ (sendOn = NoSock /\ sendOn' # NoSock)
          => (isConnected /\ isReady /\ messages' = messages)
     /\ (sendOn # NoSock /\ sendOn' = NoSock)
          => \/ /\ resp' = Resp("/send", 200)
                /\ messages' = <<[fromMe |-> TRUE]>> \o messages
             \/ /\ resp' = Resp("/send", 500)
                /\ messages' = messages
     /\ (resp'.route = "/send" /\ resp'.code # 200) => messages' = messages]_vars

\* a send answered 200 whose record sits on top of an inbound one
C9_Witness ==
  /\ resp = Resp("/send", 200)
  /\ Len(messages) = 2
  /\ messages[1].fromMe
  /\ ~messages[2].fromMe

\* C10: isReady implies isAuthenticated, and isAuthenticated implies
\* isConnected, in every state between handler turns
C10_FlagChain ==
  /\ isReady => isAuthenticated
  /\ isAuthenticated => isConnected

\* the reconnect scheduled by POST /logout
LogoutTimer43 == Timer(2000, "logout")

\* C15: whenever the POST /logout handler finishes, with 200 or with 500, the
\* session store is empty, isConnected, isAuthenticated and isReady are false,
\* the QR payload is cleared and the handler has scheduled one reconnect
C15_LogoutWipes ==
  [][resp'.route = "/logout"
       => /\ ~authFolder'
          /\ ~isConnected' /\ ~isAuthenticated' /\ ~isReady'
          /\ qrCode' = 0 /\ qrDataUrl' = 0
          /\ CopiesIn(LogoutTimer43, timers') = CopiesIn(LogoutTimer43, timers) + 1]_vars

\* C18: the message log never holds more than LOG_CAP records
C18_LogCapacity == Len(messages) <= LOG_CAP

\* C28: isReady turns true only for a connection that received open, through
\* a messages.upsert of that connection or the ready timer of the same run
C28_ReadyByOwnConnection ==
  [][(~isReady /\ isReady')
       => \E s \in Attempts :
            /\ phase[s] = "open"
            /\ \/ ReadyTimerFires43(s)
               \/ \E type \in {"notify", "append"}, batch \in Batches :
                    EvUpsert43(s, type, batch)]_vars

\* C29: with no message received, a connection that opened (no QR rendering
\* still pending) and has not closed eventually has isReady true
C29_OpenLeadsToReady ==
  \A s \in Attempts :
    (phase[s] = "open" /\ QrWaiting = 0) ~> (isReady \/ phase[s] # "open")

\* C30: lastError is null when a connectWhatsApp run starts
C30_ErrorClearedAtStart ==
  [][\A a \in Attempts :
       (pc[a] # "awaiting" /\ pc'[a] = "awaiting") => lastError' = "null"]_vars

\* C36: reconnectAttempts never exceeds MAX_RECONNECT_ATTEMPTS, and once the
\* limit is reached a close event, whatever its status code, schedules no
\* further reconnect
C36_ReconnectBounded ==
  /\ [](reconnectAttempts <= MAX_RECONNECT_ATTEMPTS)
  /\ [][(reconnectAttempts = MAX_RECONNECT_ATTEMPTS
           /\ \E s \in Attempts, c \in Codes : EvClose43(s, c))
          => timers' = timers]_vars

(***************************************************************************)
(*                         claims, v4.0                                    *)
(***************************************************************************)
\* C20: a close with status loggedOut clears the credentials, and after it a
\* new connectWhatsApp run eventually starts (as long as the model has runs
\* left)
C20_ReconnectAfterLoggedOut ==
  /\ [][(\E s \in Attempts : EvClose40(s, "loggedOut")) => ~authFolder']_vars
  /\ (wiped /\ Cardinality(Started) < MaxAttempts) ~> ~wiped

\* C31: the log holds the messages newest-emitted first
C31_LogInEmissionOrder ==
  \A i, j \in 1..Len(messages) : i < j => messages[i].seq > messages[j].seq

====
